---- MODULE Spec2Model ----
(***************************************************************************)
(* GladiaTranscribe (src/gladiatranscribe/transcription.py): the message   *)
(* handler, the job registry `polls`, start_poll_task and the poll loop    *)
(* _poll_transcriptions, as coroutines on one cooperative event loop.      *)
(*                                                                         *)
(* One action is one synchronous stretch of a coroutine: from the return   *)
(* of one await to the next await (or to the coroutine's end).             *)
(*                                                                         *)
(* Modelling assumptions, all about names the source uses but does not     *)
(* define:                                                                 *)
(*  - asyncio.CancellationToken / asyncio.CancellationError /              *)
(*    asyncio.sleep(.., lookup=token) are taken as the cancellation API    *)
(*    the source is written against: a new token is not cancelled,         *)
(*    cancel() makes cancelled()/is_cancelled() true, and the sleep ends   *)
(*    either normally or with CancellationError.  (Stock asyncio has none  *)
(*    of the three.)                                                       *)
(*  - line 80 calls self.upload_audio(self, data); the model follows the   *)
(*    call into upload_audio with `data` as the audio.  (As written the    *)
(*    bound method receives one argument too many.)                        *)
(*  - the HTTP client, the Matrix client and the remote service are        *)
(*    external: each await on them returns one of the outcomes its caller  *)
(*    distinguishes, or raises.                                            *)
(***************************************************************************)
EXTENDS Integers, Sequences, FiniteSets, TLC

(* ---- bounds ---- *)
MaxMsgs == 2
MaxTasks == 2
MaxCount == 2

Msgs == 1..MaxMsgs
Slots == 1..MaxTasks

VARIABLES
    started,    \* start() has run
    token,      \* self._cancellation_token: "unset" | "live" | "cancelled"
    poll_task,  \* self._poll_task: 0 is None, otherwise the slot of the task
    tasks,      \* the event loop's tasks running _poll_transcriptions
    polls,      \* self.polls, the registry
    handler,    \* one transcribe_audio_message coroutine per inbound message
    hist,       \* per message: what the poll loop has observed and dispatched
    audit       \* history only: the handlers record their inputs and outcomes

vars == <<started, token, poll_task, tasks, polls, handler, hist, audit>>

(* ---- data ---- *)

\* TranscriptionPoll(url, evt); url "None" is what request_transcription
\* returns on a non-200 status
TranscriptionPoll(url, evt) == [url |-> url, evt |-> evt]

\* what an inbound event carries: msgtype and which of content.url /
\* content.file are populated
Kinds == {"text", "plain", "encrypted", "both", "neither"}
IsAudio(kind) == kind # "text"
HasUrl(kind) == kind \in {"plain", "both"}
HasFile(kind) == kind \in {"encrypted", "both"}

Bump(c) == IF c < MaxCount THEN c + 1 ELSE c

\* a field of the handlers' history: written when the history is kept
Noted(new, old) == IF audit THEN new ELSE old

\* inRound (history): the job was appended while a round was in progress, the
\* current one or the one before the current sleep
IdleHandler ==
    [pc |-> "idle", kind |-> "text", paths |-> {}, fetch |-> "none",
     upload |-> "none", request |-> "none", jobs |-> 0, inRound |-> FALSE]

\* dispatched: calls of use_transcription; pendings: polls that saw a status
\* other than 'done'; failed: a poll raised; sawDone: a poll saw 'done';
\* replyFailed: evt.reply raised
NoHist == [dispatched |-> 0, pendings |-> 0, failed |-> FALSE, sawDone |-> FALSE,
           replyFailed |-> FALSE]

FreeTask == [pc |-> "free", idx |-> 0, poll |-> 0, newPolls |-> <<>>]

(* ---- start() ---- *)

Init ==
    /\ started = FALSE
    /\ token = "unset"
    /\ poll_task = 0
    /\ tasks = [t \in Slots |-> FreeTask]
    /\ polls = <<>>
    /\ handler = [m \in Msgs |-> IdleHandler]
    /\ hist = [m \in Msgs |-> NoHist]
    /\ audit = TRUE

Start ==
    /\ ~started
    /\ started' = TRUE
    /\ token' = "live"
    /\ poll_task' = 0
    /\ UNCHANGED <<tasks, polls, handler, hist, audit>>

(* ---- start_poll_task ---- *)

\* start_poll_task without its test
AlreadyRunningNever == FALSE

\* lines 172-175: the "already running" test
AlreadyRunning ==
    \/ token = "live"
    \/ (poll_task # 0 /\ tasks[poll_task].pc # "done")

IsFree(s) == tasks[s].pc \in {"free", "done"}

\* the slot loop.create_task gives the new task: the lowest one not in use
FreeSlot == CHOOSE s \in Slots : IsFree(s) /\ \A r \in Slots : r < s => ~IsFree(r)

\* lines 170-180, a synchronous call: it changes token, poll_task and tasks
StartPollTask ==
    IF AlreadyRunning
    THEN UNCHANGED <<token, poll_task, tasks>>
    ELSE /\ \E s \in Slots : IsFree(s)
         /\ token' = "live"
         /\ poll_task' = FreeSlot
         /\ tasks' = [tasks EXCEPT ![FreeSlot] = [FreeTask EXCEPT !.pc = "created"]]

(* ---- transcribe_audio_message ---- *)

\* the two tests of lines 72 and 74 in the other order
FetchPathFileFirst(kind) ==
    IF ~IsAudio(kind) THEN "none"
    ELSE IF HasUrl(kind) THEN "encrypted"
    ELSE IF HasFile(kind) THEN "plain"
    ELSE "none"

\* lines 66-78: which download the handler awaits, "none" when it returns
FetchPath(kind) ==
    IF ~IsAudio(kind) THEN "none"
    ELSE IF HasUrl(kind) THEN "plain"
    ELSE IF HasFile(kind) THEN "encrypted"
    ELSE "none"

\* lines 101-107 and 121-127: what upload_audio and request_transcription
\* return for a response; "None" is the bare return of the error branch
Returned(out, value) == IF out = "ok" THEN value ELSE "None"

\* lines 80-82: the handler goes on to its next statement whenever the call
\* returned; it does not look at the returned value
GoesOn(out) == out # "raise"

\* a task is inside the for loop of a round, at one of its awaits
RoundInProgress == \E t \in DOMAIN tasks : tasks[t].pc \in {"get", "json", "reply"}

\* lines 61-78, up to the first await; the events are numbered in the order
\* of their arrival
Receive(m, kind) ==
    /\ started
    /\ handler[m].pc = "idle"
    /\ \A k \in Msgs : k < m => handler[k].pc # "idle"
    /\ LET path == FetchPath(kind) IN
       handler' = [handler EXCEPT ![m] =
           [@ EXCEPT !.kind = Noted(kind, @),
                     !.pc = IF path = "none" THEN "done" ELSE "fetch",
                     !.paths = IF path = "none" THEN @ ELSE Noted(@ \cup {path}, @)]]
    /\ UNCHANGED <<started, token, poll_task, tasks, polls, hist, audit>>

\* lines 73/75 return (or raise), then line 80 and upload_audio up to its post
FetchReturn(m, out) ==
    /\ handler[m].pc = "fetch"
    /\ handler' = [handler EXCEPT ![m] =
           [@ EXCEPT !.fetch = Noted(out, @),
                     !.pc = IF GoesOn(out) THEN "upload" ELSE "done"]]
    /\ UNCHANGED <<started, token, poll_task, tasks, polls, hist, audit>>

\* lines 99-107 return (or raise), then line 81 and request_transcription up
\* to its post
UploadReturn(m, out) ==
    /\ handler[m].pc = "upload"
    /\ handler' = [handler EXCEPT ![m] =
           [@ EXCEPT !.upload = Noted(out, @),
                     !.pc = IF GoesOn(out) THEN "request" ELSE "done"]]
    /\ UNCHANGED <<started, token, poll_task, tasks, polls, hist, audit>>

\* lines 120-127 return (or raise), then lines 82-83
RequestReturn(m, out) ==
    /\ handler[m].pc = "request"
    /\ IF GoesOn(out)
       THEN /\ polls' = Append(polls, TranscriptionPoll(Returned(out, "result_url"), m))
            /\ handler' = [handler EXCEPT ![m] =
                   [@ EXCEPT !.request = Noted(out, @), !.pc = "done", !.jobs = Bump(@),
                             !.inRound = RoundInProgress]]
            /\ StartPollTask
       ELSE /\ handler' = [handler EXCEPT ![m] =
                   [@ EXCEPT !.request = Noted(out, @), !.pc = "done"]]
            /\ UNCHANGED <<token, poll_task, tasks, polls>>
    /\ UNCHANGED <<started, hist, audit>>

HandlerNext ==
    \/ Start
    \/ \E m \in Msgs, kind \in Kinds : Receive(m, kind)
    \/ \E m \in Msgs, out \in {"ok", "raise"} : FetchReturn(m, out)
    \/ \E m \in Msgs, out \in {"ok", "failed", "raise"} : UploadReturn(m, out)
    \/ \E m \in Msgs, out \in {"ok", "failed", "raise"} : RequestReturn(m, out)

(* ---- _poll_transcriptions ---- *)

\* line 133: the while test
IsCancelled == token = "cancelled"

\* line 141: the test on the decoded status
IsDone(status) == status = "done"

\* line 144 left out
KeepNothing(newPolls, poll) == newPolls

\* line 144 run twice
KeepTwice(newPolls, poll) == Append(Append(newPolls, poll), poll)

\* line 144: what the round keeps of a job it did not see done
Keep(newPolls, poll) == Append(newPolls, poll)

\* the iterator stops after the first element it was created over
HasNextFirstOnly(idx) == idx < 1 /\ idx < Len(polls)

\* line 136: the list iterator has another element
HasNext(idx) == idx < Len(polls)

TaskDone == [pc |-> "done", idx |-> 0, poll |-> 0, newPolls |-> <<>>]

\* lines 146-150, 157: the swap, then stop (cancel, break, return) or sleep
RoundEnd(t, newPolls) ==
    /\ polls' = newPolls
    /\ IF Len(newPolls) = 0
       THEN /\ token' = "cancelled"
            /\ tasks' = [tasks EXCEPT ![t] = TaskDone]
       ELSE /\ token' = token
            /\ tasks' = [tasks EXCEPT ![t] =
                   [pc |-> "sleep", idx |-> 0, poll |-> 0, newPolls |-> <<>>]]

\* line 136 after an iteration of the for loop, up to the next await: the next
\* job's GET (lines 137-138), or the end of the round
NextIter(t, newPolls) ==
    IF HasNext(tasks[t].idx)
    THEN /\ tasks' = [tasks EXCEPT ![t] =
                [pc |-> "get", idx |-> tasks[t].idx + 1,
                 poll |-> polls[tasks[t].idx + 1].evt, newPolls |-> newPolls]]
         /\ UNCHANGED <<polls, token>>
    ELSE RoundEnd(t, newPolls)

\* lines 133-138 from the while test, up to the next await: the task returns
\* (line 157), or a round begins with newPolls = []
WhileTop(t) ==
    IF IsCancelled
    THEN /\ tasks' = [tasks EXCEPT ![t] = TaskDone]
         /\ UNCHANGED <<polls, token>>
    ELSE IF HasNext(0)
         THEN /\ tasks' = [tasks EXCEPT ![t] =
                     [pc |-> "get", idx |-> 1, poll |-> polls[1].evt,
                      newPolls |-> <<>>]]
              /\ UNCHANGED <<polls, token>>
         ELSE RoundEnd(t, <<>>)

\* the exception leaves the coroutine: the task ends
OnExceptionDies(t) ==
    /\ tasks' = [tasks EXCEPT ![t] = TaskDone]
    /\ UNCHANGED <<polls, token>>

\* lines 154-156: an exception of the round is printed and the while test
\* follows, without the swap of line 146 and without the sleep of line 150
OnException(t) == WhileTop(t)

\* the job the task is working on: the element of self.polls at the
\* iterator's index
CurrentPoll(t) == polls[tasks[t].idx]

\* the event loop runs the new task for the first time
PollRun(t) ==
    /\ tasks[t].pc = "created"
    /\ WhileTop(t)
    /\ UNCHANGED <<started, poll_task, handler, hist, audit>>

\* line 138 returns or raises; a GET of the url None can only raise
PollGetReturn(t, out) ==
    /\ tasks[t].pc = "get"
    /\ CurrentPoll(t).url = "None" => out = "raise"
    /\ LET m == tasks[t].poll IN
       IF out = "raise"
       THEN /\ hist' = [hist EXCEPT ![m].failed = TRUE]
            /\ OnException(t)
       ELSE /\ tasks' = [tasks EXCEPT ![t].pc = "json"]
            /\ UNCHANGED <<polls, token, hist>>
    /\ UNCHANGED <<started, poll_task, handler, audit>>

\* line 140 returns the decoded body or raises, then lines 141-145: a body
\* without 'status' raises at line 141
PollJsonReturn(t, status) ==
    /\ tasks[t].pc = "json"
    /\ LET m == tasks[t].poll IN
       IF status = "raise"
       THEN /\ hist' = [hist EXCEPT ![m].failed = TRUE]
            /\ OnException(t)
       ELSE IF IsDone(status)
       THEN \* line 142: use_transcription is called and awaits evt.reply
            /\ hist' = [hist EXCEPT ![m].dispatched = Bump(@),
                                    ![m].sawDone = @ \/ status = "done"]
            /\ tasks' = [tasks EXCEPT ![t].pc = "reply"]
            /\ UNCHANGED <<polls, token>>
       ELSE /\ hist' = [hist EXCEPT ![m].pendings = Bump(@),
                                    ![m].sawDone = @ \/ status = "done"]
            /\ NextIter(t, Keep(tasks[t].newPolls, CurrentPoll(t)))
    /\ UNCHANGED <<started, poll_task, handler, audit>>

\* line 166 returns or raises, then line 136
PollReplyReturn(t, out) ==
    /\ tasks[t].pc = "reply"
    /\ IF out = "raise"
       THEN /\ hist' = [hist EXCEPT ![tasks[t].poll].replyFailed = TRUE]
            /\ OnException(t)
       ELSE /\ NextIter(t, tasks[t].newPolls)
            /\ UNCHANGED hist
    /\ UNCHANGED <<started, poll_task, handler, audit>>

\* line 150 returns, or raises CancellationError (lines 151-153), then line 133
PollSleepReturn(t) ==
    /\ tasks[t].pc = "sleep"
    /\ WhileTop(t)
    /\ handler' = [m \in Msgs |-> [handler[m] EXCEPT !.inRound = FALSE]]
    /\ UNCHANGED <<started, poll_task, hist, audit>>

LoopNext ==
    \/ \E t \in Slots : PollRun(t)
    \/ \E t \in Slots, out \in {"ok", "raise"} : PollGetReturn(t, out)
    \/ \E t \in Slots, status \in {"done", "processing", "raise"} : PollJsonReturn(t, status)
    \/ \E t \in Slots, out \in {"ok", "raise"} : PollReplyReturn(t, out)
    \/ \E t \in Slots : PollSleepReturn(t)

(* ---- specifications ---- *)

Next == HandlerNext \/ LoopNext

\* the plugin from its construction
Spec == Init /\ [][Next]_vars

\* no state of Spec has a poll task (C2), so no step of Spec is a step of
\* LoopNext: the behaviours of Spec are those of SpecStart
SpecStart == Init /\ [][HandlerNext]_vars

\* the poll loop as a unit: the controller as lines 178-179 leave it, over an
\* empty registry, with the message handlers running beside it (their inputs
\* and outcomes are not recorded: only handler[m].pc and .jobs are kept)
InitLoop ==
    /\ started = TRUE
    /\ token = "live"
    /\ poll_task = 1
    /\ tasks = [t \in Slots |-> IF t = 1 THEN [FreeTask EXCEPT !.pc = "created"] ELSE FreeTask]
    /\ polls = <<>>
    /\ handler = [m \in Msgs |-> IdleHandler]
    /\ hist = [m \in Msgs |-> NoHist]
    /\ audit = FALSE

RunNext ==
    \/ \E m \in Msgs, kind \in Kinds : Receive(m, kind)
    \/ \E m \in Msgs, out \in {"ok", "raise"} : FetchReturn(m, out)
    \/ \E m \in Msgs, out \in {"ok", "failed", "raise"} : UploadReturn(m, out)
    \/ \E m \in Msgs, out \in {"ok", "failed", "raise"} : RequestReturn(m, out)
    \/ LoopNext

SpecLoop == InitLoop /\ [][RunNext]_vars

(* ---- controller states ---- *)

RunningTasks == {t \in Slots : tasks[t].pc \notin {"free", "done"}}
Running == RunningTasks # {}
Idle == RunningTasks = {}

\* the registry holds a job of message m
InRegistry(m) == \E i \in DOMAIN polls : polls[i].evt = m

\* a task was created in this step (line 179)
TaskCreated == \E t \in Slots : tasks'[t].pc = "created" /\ tasks[t].pc # "created"

\* the handler of m appends its job in this step (line 82), and so calls
\* start_poll_task (line 83)
Inserts(m) == handler[m].pc = "request" /\ handler'[m].jobs > handler[m].jobs

(* ---- claims ---- *)

\* C1: a job is added to the registry for a message if and only if the media
\* fetch, upload_audio and request_transcription all succeeded for it; when
\* the upload or the request returns a non-success status no job is added.
C1_JobIffAllSucceeded ==
    \A m \in Msgs :
        handler[m].pc = "done" =>
            (handler[m].jobs > 0 <=>
                (handler[m].fetch = "ok" /\ handler[m].upload = "ok"
                 /\ handler[m].request = "ok"))

\* C2: after start(), with no poll loop ever started, the first insertion of
\* a job by the handler (the registry goes from empty to non-empty while the
\* controller is Idle) makes start_poll_task create the poll task: the
\* controller is Running after the step.
C2_FirstInsertionStartsLoop ==
    [][(Len(polls) = 0 /\ Idle /\ Len(polls') > 0) => Running']_vars

\* C3: at most one instance of the poll loop is running in every reachable
\* state, and a call of start_poll_task while a loop is Running creates no
\* task and leaves the token, _poll_task and the registry (as the handler's
\* append left it) unchanged.
C3_SingleLoop ==
    /\ [](Cardinality(RunningTasks) <= 1)
    /\ [][\A m \in Msgs :
            (Running /\ Inserts(m)) =>
                /\ tasks' = tasks
                /\ token' = token
                /\ poll_task' = poll_task
                /\ polls' = Append(polls, polls'[Len(polls')])]_vars

\* C3 witness: a second job was inserted while the loop was running on the
\* first one, and one loop is running
C3_Witness ==
    /\ Len(polls) = 2
    /\ Cardinality(RunningTasks) = 1
    /\ \A m \in Msgs : handler[m].jobs = 1

\* every reply so far was posted
RepliesPosted == \A m \in Msgs : ~hist[m].replyFailed

\* the controller is between two rounds: the task sleeps at line 150
BetweenRounds == \E t \in Slots : tasks[t].pc = "sleep"

\* C4: in any run of the poll loop each job is dispatched to use_transcription
\* at most once, and between rounds the registry holds exactly the added jobs
\* not yet observed Done (a job observed Done and dispatched is absent).
C4_DispatchedAtMostOnce ==
    RepliesPosted =>
        /\ \A m \in Msgs : hist[m].dispatched <= 1
        /\ BetweenRounds =>
               \A m \in Msgs :
                   InRegistry(m) <=> (handler[m].jobs > 0 /\ ~hist[m].sawDone)

\* C5: a job added through the handler after start() whose upload and
\* transcription request were accepted ends with exactly one dispatch, an empty registry and
\* an Idle controller: the program does not come to rest before that.
C5_RoundTrip ==
    (~ENABLED Next) =>
        \A m \in Msgs :
            (handler[m].jobs > 0 /\ handler[m].upload = "ok"
             /\ handler[m].request = "ok") =>
                (hist[m].dispatched = 1 /\ polls = <<>> /\ Idle)

\* C6: a job whose polls have only seen a status other than 'done', in any
\* number of rounds, is still in the registry and nothing was dispatched for it.
C6_PendingRetained ==
    \A m \in Msgs :
        (handler[m].jobs > 0 /\ ~hist[m].sawDone) =>
            (InRegistry(m) /\ hist[m].dispatched = 0)

\* C6 witness: a job polled MaxCount times, never seen done, still registered
C6_Witness ==
    \E m \in Msgs :
        /\ hist[m].pendings = MaxCount
        /\ ~hist[m].sawDone
        /\ InRegistry(m)
        /\ hist[m].dispatched = 0

\* C7: a poll that raises is not a completion: the job stays in the registry
\* with no reply; once a later poll has seen Done, exactly one reply was
\* produced for it, and none before.
C7_FailureThenDoneOneReply ==
    \A m \in Msgs :
        (hist[m].failed /\ RepliesPosted) =>
            IF hist[m].sawDone
            THEN hist[m].dispatched = 1
            ELSE hist[m].dispatched = 0 /\ InRegistry(m)

\* C8: after the loop stopped on an empty retained set the controller is Idle,
\* and a poll task is created in exactly the steps that take the registry from
\* empty to non-empty.
C8_OneStartPerNonEmpty ==
    /\ [](token = "cancelled" => Idle)
    /\ [][(Len(polls) = 0 /\ Len(polls') > 0) <=> TaskCreated]_vars

\* C9: a message that is not audio causes no fetch, no remote call and no job;
\* audio with only `file` is fetched through the encrypted path and never the
\* plain one; audio with only `url` through the plain path and never the
\* encrypted one; audio with neither causes no fetch and no job.
C9_FetchPathByMedia ==
    \A m \in Msgs :
        handler[m].pc # "idle" =>
            LET h == handler[m]
                untouched == /\ h.pc = "done" /\ h.paths = {} /\ h.fetch = "none"
                             /\ h.upload = "none" /\ h.request = "none"
                             /\ h.jobs = 0 /\ ~InRegistry(m)
            IN  /\ h.kind = "text" => untouched
                /\ h.kind = "neither" => untouched
                /\ h.kind = "encrypted" => h.paths = {"encrypted"}
                /\ h.kind = "plain" => h.paths = {"plain"}

\* C9 witness: an audio message with only `file` went through the encrypted
\* download and on to a job, beside a message that is not audio
C9_Witness ==
    /\ \E m \in Msgs :
        /\ handler[m].kind = "encrypted"
        /\ handler[m].paths = {"encrypted"}
        /\ handler[m].jobs = 1
    /\ \E m \in Msgs : handler[m].kind = "text" /\ handler[m].pc = "done"

\* the GET of the job the task is working on raises in this step
GetRaises(t) == tasks[t].pc = "get" /\ tasks'[t].pc # "json"

\* C10: a poll that raises is a PollFailure for its job only: the round goes
\* on as if that poll had returned Pending, so a job that follows the failing
\* one in the round is polled next and what the round has retained so far,
\* with the failing job, is kept.
C10_FailureIsolated ==
    [][\A t \in Slots :
            (GetRaises(t) /\ HasNext(tasks[t].idx)) =>
                /\ tasks'[t].pc = "get"
                /\ tasks'[t].idx = tasks[t].idx + 1
                /\ tasks'[t].newPolls = Append(tasks[t].newPolls, CurrentPoll(t))]_vars

\* C11: a job the handler appends while a round is in progress (at any await
\* of the round) is never lost: in every state, and so after the swap that
\* ends the round, it is in the registry or was seen Done and dispatched; and
\* the registry is never half-updated: each entry is a job a handler
\* appended, and no job is in it twice.
C11_InsertNeverLost ==
    /\ \A m \in Msgs :
        handler[m].jobs > 0 => (InRegistry(m) \/ hist[m].dispatched > 0)
    /\ \A i \in DOMAIN polls :
        /\ handler[polls[i].evt].jobs > 0
        /\ \A j \in DOMAIN polls : polls[j].evt = polls[i].evt => j = i

\* C11 witness: a job appended during a round is in the registry after the
\* swap that ended a round, beside an older job seen Done and removed
C11_Witness ==
    /\ BetweenRounds
    /\ \E m \in Msgs : handler[m].inRound /\ InRegistry(m)
    /\ \E m \in Msgs : hist[m].sawDone /\ ~InRegistry(m)

\* the task in slot t returns in this step (line 157)
Stops(t) == tasks[t].pc \notin {"free", "done"} /\ tasks'[t].pc = "done"

\* C12: a running loop becomes Idle only at the end of a round whose retained
\* set is empty, tested after the iterator has passed every job of the
\* registry; no poll error, reply error or end of a sleep stops it while the
\* registry holds a job.
C12_StopsOnlyWhenEmpty ==
    /\ [](Len(polls) > 0 => Running)
    /\ [][\A t \in Slots :
            Stops(t) =>
                /\ polls' = <<>>
                /\ token' = "cancelled"
                /\ tasks[t].idx = Len(polls)]_vars

\* C12 witness: the loop has stopped on an empty registry after a poll that
\* raised and a reply that raised
C12_Witness ==
    /\ Idle
    /\ polls = <<>>
    /\ token = "cancelled"
    /\ \E m \in Msgs : hist[m].failed /\ hist[m].sawDone
    /\ \E m \in Msgs : hist[m].replyFailed

\* a GET or the decoding of its response is pending for the job of m
BeingPolled(m) ==
    \E t \in Slots : tasks[t].pc \in {"get", "json"} /\ tasks[t].poll = m

\* C13: when posting the reply of a job seen Done raises, the job is not
\* queued again: it is never polled or dispatched again and is absent from the
\* registry between rounds.
C13_FailedReplyNotRequeued ==
    \A m \in Msgs :
        hist[m].replyFailed =>
            /\ hist[m].dispatched = 1
            /\ ~BeingPolled(m)
            /\ BetweenRounds => ~InRegistry(m)

\* the task in slot t begins a round in this step: its first GET is issued
BeginsRound(t) ==
    /\ tasks'[t] # tasks[t]
    /\ tasks'[t].pc = "get"
    /\ tasks'[t].idx = 1

\* C14: the controller sleeps once between the end of a round and the start
\* of the next, also after a round in which a poll or a reply raised: a round
\* begins only when the task is first run or when its sleep has ended.
C14_SleepBetweenRounds ==
    [][\A t \in Slots :
            BeginsRound(t) => tasks[t].pc \in {"created", "sleep"}]_vars

\* the task in slot t leaves the pass it is making over the registry in this
\* step: by the swap, or by an exception that sends it back to the first job
LeavesRound(t) ==
    /\ tasks[t].pc \in {"get", "json", "reply"}
    /\ \/ tasks'[t].pc \in {"sleep", "done"}
       \/ BeginsRound(t)

\* C15: in every round each job of the registry receives exactly one status
\* poll, whatever the results of the other polls: when the task leaves a
\* round its iterator has passed every job (it passes none twice).
C15_EveryJobPolledOnce ==
    [][\A t \in Slots : LeavesRound(t) => tasks[t].idx = Len(polls)]_vars

\* C16: when upload_audio fails the handler stops there: request_transcription
\* is not called, nothing is appended and start_poll_task is not called; when
\* request_transcription fails nothing is appended either.
C16_AbortOnFailure ==
    \A m \in Msgs :
        /\ handler[m].upload = "failed" =>
               /\ handler[m].pc = "done"
               /\ handler[m].request = "none"
               /\ handler[m].jobs = 0
        /\ handler[m].request = "failed" =>
               /\ handler[m].jobs = 0
               /\ ~InRegistry(m)

\* the task in slot t ends a round by the swap of line 146 in this step
Swaps(t) ==
    /\ tasks[t].pc \in {"json", "reply"}
    /\ tasks'[t].pc \in {"sleep", "done"}

\* new holds only jobs of old, each once
OnlyRemoves(old, new) ==
    /\ \A i \in DOMAIN new : \E j \in DOMAIN old : old[j] = new[i]
    /\ \A i, j \in DOMAIN new : new[i] = new[j] => i = j

\* C17: the registry changes only in the handler's insertion, which appends
\* one job, and in the swap that ends a round, which only removes jobs (no
\* new job, no duplicate); the round's iteration, start_poll_task and
\* use_transcription leave it as it is.
C17_RegistryFrame ==
    [][polls' # polls =>
          \/ \E m \in Msgs :
                /\ Inserts(m)
                /\ Len(polls') = Len(polls) + 1
                /\ polls'[Len(polls')].evt = m
                /\ SubSeq(polls', 1, Len(polls)) = polls
          \/ \E t \in Slots : Swaps(t) /\ OnlyRemoves(polls, polls')]_vars

\* C17 witness: a swap has removed a job seen Done and kept another one
C17_Witness ==
    /\ BetweenRounds
    /\ Len(polls) = 1
    /\ \E m \in Msgs :
        handler[m].jobs > 0 /\ hist[m].sawDone /\ ~InRegistry(m)
    /\ RepliesPosted

\* C18: after start(), whenever the registry is not empty a poll loop is
\* running: the token is not cancelled and the poll task exists and is not
\* done.
C18_NonEmptyImpliesLoop ==
    (started /\ Len(polls) > 0) =>
        /\ token = "live"
        /\ poll_task # 0
        /\ tasks[poll_task].pc \notin {"free", "done"}

====
